---------------------------- MODULE Spec2Model ----------------------------
(***************************************************************************)
(* PROJECT-GENESIS: the agent decision-and-update loop (main.py), the      *)
(* environment's action resolution (world.py) and the agent entity         *)
(* (person.py), as a state machine.                                        *)
(*                                                                         *)
(* Numbers.  The program computes with IEEE doubles.  Here every real      *)
(* quantity is a fixed-point integer counting thousandths (Unit = 1.0), so *)
(* 0.005 is 5 and 100.0 is 100000.  An operation whose exact result is not *)
(* representable is rounded to the nearest representable value, ties to    *)
(* even, which is what the double arithmetic does at its own resolution.   *)
(*                                                                         *)
(* Objects.  persons is the heap of Person objects, a Person's identity is *)
(* its index in it; agents (Simulation.agents) is a list of identities.    *)
(***************************************************************************)
EXTENDS Integers, Sequences, FiniteSets, TLC

\* ------------------------------------------------------------------ bounds
\* The largest number of ticks a run is configured with (Simulation.turns).
MaxTurns == 3
\* The work of a run: acting agents of the starting population x turns.
MaxWork == 3

\* --------------------------------------------------------------- constants
Unit == 10 * 10 * 10

\* constants.py (not part of the sources at hand; values as the spec words them)
GRID_SIZE == 10
THE_MARKET == <<5, 5>>
MAX_STAT == 100000
MAX_HEALTH == 100000
RESOURCE_MAX == 1000000
MARKET_REGENERATION_RATE == 5000
CYCLES_PER_DEPENDENT_YEAR == 365

\* world.py ACTIONS (the action codes; ACTIONS is a reserved word here)
ActionCodes == 0 .. 12

\* Python's None: as a Person reference, and as a partner name
None == 0
NoName == "<None>"

\* An empty dict
EmptyTracker == [k \in {} |-> 0]

GoalWealth == "Acquire Wealth and Status"
GoalLove == "Find Love and a Partner"
GoalLimits == "Discover the World's True Limits"
GoalRecovery == "Recovery and Solitude"

\* ------------------------------------------------------------- arithmetic
Max(a, b) == IF a >= b THEN a ELSE b
Min(a, b) == IF a <= b THEN a ELSE b
Abs(a) == IF a >= 0 THEN a ELSE -a

\* n / d (d > 0) rounded to the nearest integer, ties to even.
RoundDiv(n, d) ==
    LET q == n \div d
        r == n % d
    IN  IF 2 * r < d THEN q
        ELSE IF 2 * r > d THEN q + 1
        ELSE IF q % 2 = 0 THEN q ELSE q + 1

\* person.py clamp
clampNoUpper(value, lo, hi) == Max(lo, value)
clamp(value, lo, hi) == Max(lo, Min(hi, value))

clampStat(value) == clamp(value, 0, MAX_STAT)

RECURSIVE SumSeq(_)
SumSeq(s) == IF s = <<>> THEN 0 ELSE Head(s) + SumSeq(Tail(s))

Range(s) == {s[i] : i \in 1 .. Len(s)}

\* ------------------------------------------------------------------ Person
\* person.py Person.__init__
NewPerson(name, age_years, start_pos, relationship_status, personal_goal, TiR_score, memory_cap) ==
    [ name |-> name,
      age_years |-> age_years,
      is_alive |-> TRUE,
      turns_survived |-> 0,
      health |-> MAX_HEALTH,
      sustenance |-> MAX_STAT,
      mood |-> 80 * Unit,
      self_confidence |-> 70 * Unit,
      reputation |-> 50 * Unit,
      personal_goal |-> personal_goal,
      TiR_score |-> TiR_score,
      relationship_status |-> relationship_status,
      partner_name |-> NoName,
      progeny_count |-> 0,
      position |-> start_pos,
      action_utility_tracker |-> EmptyTracker,
      MEMORY_CAP |-> memory_cap ]

\* The value of tracker.get(key, 10.0)
TrackerGet(tracker, key) ==
    IF key \in DOMAIN tracker THEN tracker[key] ELSE 10 * Unit

TrackerPut(tracker, key, value) ==
    [k \in (DOMAIN tracker) \cup {key} |->
        IF k = key THEN value ELSE tracker[k]]

\* person.py Person.get_exploration_rate, in thousandths of a probability
get_exploration_rate(p) ==
    clamp(Unit - RoundDiv(p.self_confidence * Unit, MAX_STAT), 0, Unit)

\* person.py Person.get_health_decay_rate
get_health_decay_rate(p) ==
    IF p.age_years > 60
    THEN (Unit \div 20) + (p.age_years - 60) * (Unit \div 50)
    ELSE Unit \div 20

\* person.py Person._prune_memory: the trackers it may leave (random.sample
\* picks which entries go)
PruneOutcomes(tracker, cap) ==
    IF Cardinality(DOMAIN tracker) > cap
    THEN LET remove_count == Cardinality(DOMAIN tracker) - cap
         IN  { [k \in (DOMAIN tracker) \ keys |-> tracker[k]] :
                 keys \in {K \in SUBSET (DOMAIN tracker) : Cardinality(K) = remove_count} }
    ELSE {tracker}

\* The decayed stats of apply_aging_and_decay
Decayed(p) ==
    [p EXCEPT !.health = clamp(p.health - get_health_decay_rate(p), 0, MAX_HEALTH),
              !.sustenance = clamp(p.sustenance - (Unit \div 200), 0, MAX_STAT)]

\* The mortality test of apply_aging_and_decay
DiesAnyStat(p) == p.health <= 0 /\ p.sustenance <= 0
Dies(p) == p.health <= 0 \/ p.sustenance <= 0

\* person.py Person.apply_aging_and_decay: the set of its outcomes
\* [person: the Person afterwards, died: its return value]
apply_aging_and_decay(p) ==
    LET d == Decayed(p)
    IN  IF Dies(d)
        THEN {[person |-> [d EXCEPT !.is_alive = FALSE], died |-> TRUE]}
        ELSE LET t == [d EXCEPT !.turns_survived = d.turns_survived + 1]
                 aged == t.turns_survived % 365 = 0
                 a == IF aged THEN [t EXCEPT !.age_years = t.age_years + 1] ELSE t
                 trackers == IF aged
                             THEN PruneOutcomes(a.action_utility_tracker, a.MEMORY_CAP)
                             ELSE {a.action_utility_tracker}
             IN  { [person |-> [a EXCEPT !.action_utility_tracker = tr,
                                         !.mood = clampStat(a.mood),
                                         !.self_confidence = clampStat(a.self_confidence),
                                         !.reputation = clampStat(a.reputation)],
                    died |-> FALSE] : tr \in trackers }

\* person.py Person.grieve_loss: the survivor afterwards
grieve_lossAsPartner(self, deceased) ==
    LET trauma_penalty == 40 * Unit
        s == [self EXCEPT !.relationship_status = "Grieving",
                          !.partner_name = NoName,
                          !.personal_goal = GoalRecovery]
    IN  [s EXCEPT !.mood = clampStat(s.mood - trauma_penalty),
                  !.health = clamp(s.health - trauma_penalty \div 2, 0, MAX_HEALTH)]
grieve_lossHealthOnly(self, deceased) ==
    [self EXCEPT !.health = clamp(self.health - (15 * Unit) \div 2, 0, MAX_HEALTH)]
grieve_loss(self, deceased) ==
    LET partner == deceased.name = self.partner_name
        trauma_penalty == IF partner THEN 40 * Unit ELSE 15 * Unit
        s == IF partner
             THEN [self EXCEPT !.relationship_status = "Grieving",
                               !.partner_name = NoName,
                               !.personal_goal = GoalRecovery]
             ELSE self
    IN  [s EXCEPT !.mood = clampStat(s.mood - trauma_penalty),
                  !.health = clamp(s.health - trauma_penalty \div 2, 0, MAX_HEALTH)]

\* person.py Person.share_belief: [target: the target afterwards, reward]
share_beliefTwice(self, target_agent) ==
    LET belief_diff == self.TiR_score - target_agent.TiR_score
        influence_factor == RoundDiv(self.reputation + 50 * Unit, 100)
        change_amount == 5 * RoundDiv(RoundDiv(belief_diff * 15, 100) * influence_factor, Unit)
    IN  [ target |-> [target_agent EXCEPT
                        !.TiR_score = clamp(target_agent.TiR_score + change_amount, 0, 100 * Unit)],
          reward |-> IF Abs(change_amount) > 2 * Unit THEN Abs(change_amount) * 5 ELSE 0 ]
share_belief(self, target_agent) ==
    LET belief_diff == self.TiR_score - target_agent.TiR_score
        influence_factor == RoundDiv(self.reputation + 50 * Unit, 100)
        \* (belief_diff * 0.15) * influence_factor, each product rounded
        change_amount == RoundDiv(RoundDiv(belief_diff * 15, 100) * influence_factor, Unit)
    IN  [ target |-> [target_agent EXCEPT
                        !.TiR_score = clamp(target_agent.TiR_score + change_amount, 0, 100 * Unit)],
          reward |-> IF Abs(change_amount) > 2 * Unit THEN Abs(change_amount) * 5 ELSE 0 ]

\* The draws of create_child: the child's name and goal (its gender is a label
\* nothing reads)
ChildNames == {"Anya_10", "Nomi_99"}
ChildGoals == {GoalWealth, GoalLove, GoalLimits}

\* person.py Person.create_child (max_health_cap = MAX_HEALTH): the child
create_childAtBirthplace(self, partner_agent, child_name, child_goal) ==
    LET max_health_cap == MAX_HEALTH
        child_tir == RoundDiv(self.TiR_score + partner_agent.TiR_score, 2)
        initial_health ==
            Min(Max(0, MAX_HEALTH + RoundDiv(self.reputation + partner_agent.reputation, 5)),
                max_health_cap)
        child == NewPerson(child_name, 0, partner_agent.position, "Dependent", child_goal,
                           child_tir, self.MEMORY_CAP)
    IN  [child EXCEPT !.health = clamp(initial_health, 0, max_health_cap),
                      !.sustenance = clamp(initial_health, 0, max_health_cap)]
create_child(self, partner_agent, child_name, child_goal) ==
    LET max_health_cap == MAX_HEALTH
        child_tir == RoundDiv(self.TiR_score + partner_agent.TiR_score, 2)
        initial_health ==
            Min(Max(0, MAX_HEALTH + RoundDiv(self.reputation + partner_agent.reputation, 5)),
                max_health_cap)
        child == NewPerson(child_name, 0, self.position, "Dependent", child_goal,
                           child_tir, self.MEMORY_CAP)
    IN  [child EXCEPT !.health = clamp(initial_health, 0, max_health_cap),
                      !.sustenance = clamp(initial_health, 0, max_health_cap)]

\* ------------------------------------------------------------------- World
\* world.py process_action, the test of the market branch
MarketIgnoresStock(agent, resource_level) == agent.position = THE_MARKET
MarketAvailable(agent, resource_level) ==
    agent.position = THE_MARKET /\ resource_level >= 50 * Unit

\* world.py process_action, the gate of the exit branch; lucky is the outcome
\* of random.random() < 0.05
ExitOnLuckAlone(agent, lucky) == lucky
ExitSucceeds(agent, lucky) == agent.TiR_score < 10 * Unit /\ lucky

\* world.py process_action, the end-of-call regeneration
RegenerateUncapped(resource_level) == resource_level + MARKET_REGENERATION_RATE
Regenerate(resource_level) ==
    clamp(resource_level + MARKET_REGENERATION_RATE, 0, RESOURCE_MAX)

\* world.py process_action, the cell a movement action proposes
ProposedCell(position, action_code) ==
    LET x == position[1]
        y == position[2]
    IN  CASE action_code = 0 -> <<x, y + 1>>
          [] action_code = 1 -> <<x, y - 1>>
          [] action_code = 2 -> <<x + 1, y>>
          [] OTHER -> <<x - 1, y>>

InGridInclusive(cell) ==
    /\ 0 <= cell[1] /\ cell[1] <= GRID_SIZE
    /\ 0 <= cell[2] /\ cell[2] <= GRID_SIZE
InGrid(cell) ==
    /\ 0 <= cell[1] /\ cell[1] < GRID_SIZE
    /\ 0 <= cell[2] /\ cell[2] < GRID_SIZE

\* world.py process_action, the final clamping of the agent
FinalClamp(a) ==
    [a EXCEPT !.health = clamp(a.health, 0, MAX_HEALTH),
              !.sustenance = clamp(a.sustenance, 0, MAX_STAT),
              !.mood = clampStat(a.mood),
              !.reputation = clampStat(a.reputation),
              !.self_confidence = clampStat(a.self_confidence)]

\* world.py World.process_action.  other is the target Person and has_other
\* whether there is one (other_agent is not None).  The result:
\* [agent, other: the two Persons afterwards, resource_level, is_exited, delta_U]
process_action(agent, other, has_other, action_code, lucky, resource_level) ==
    LET base == [agent EXCEPT
                   !.sustenance = clampStat(agent.sustenance - Unit \div 2),
                   !.health = clamp(agent.health - Unit \div 50, 0, MAX_HEALTH)]
        branch ==
          IF 0 <= action_code /\ action_code <= 3 THEN
              LET cell == ProposedCell(base.position, action_code)
              IN  IF InGrid(cell)
                  THEN [agent |-> [base EXCEPT !.position = cell], other |-> other,
                        res |-> resource_level, is_exited |-> FALSE, delta_U |-> 1 * Unit]
                  ELSE [agent |-> base, other |-> other,
                        res |-> resource_level, is_exited |-> FALSE, delta_U |-> -5 * Unit]
          ELSE IF action_code = 4 THEN
              IF MarketAvailable(base, resource_level)
              THEN [agent |-> [base EXCEPT
                                 !.sustenance = clampStat(base.sustenance + 65 * Unit),
                                 !.health = clamp(base.health + 8 * Unit, 0, MAX_HEALTH),
                                 !.reputation = clampStat(base.reputation + 5 * Unit)],
                    other |-> other, res |-> resource_level - 50 * Unit,
                    is_exited |-> FALSE, delta_U |-> 70 * Unit]
              ELSE [agent |-> [base EXCEPT
                                 !.sustenance = clampStat(base.sustenance - 10 * Unit)],
                    other |-> other, res |-> resource_level,
                    is_exited |-> FALSE, delta_U |-> -15 * Unit]
          ELSE IF action_code = 5 THEN
              [agent |-> [base EXCEPT
                            !.health = clamp(base.health + 8 * Unit, 0, MAX_HEALTH),
                            !.sustenance = clampStat(base.sustenance + 15 * Unit),
                            !.mood = clampStat(base.mood + 5 * Unit)],
               other |-> other, res |-> resource_level,
               is_exited |-> FALSE, delta_U |-> 20 * Unit]
          ELSE IF 6 <= action_code /\ action_code <= 10 THEN
              [agent |-> base, other |-> other, res |-> resource_level,
               is_exited |-> FALSE, delta_U |-> 10 * Unit]
          ELSE IF action_code = 11 /\ has_other /\ base.position = other.position THEN
              LET sb == share_belief(base, other)
              IN  [agent |-> base, other |-> sb.target, res |-> resource_level,
                   is_exited |-> FALSE, delta_U |-> sb.reward]
          ELSE IF action_code = 12 THEN
              LET paid == [base EXCEPT
                             !.sustenance = clampStat(base.sustenance - 50 * Unit),
                             !.health = clamp(base.health - 10 * Unit, 0, MAX_HEALTH)]
              IN  IF ExitSucceeds(paid, lucky)
                  THEN [agent |-> paid, other |-> other, res |-> resource_level,
                        is_exited |-> TRUE, delta_U |-> 1000 * Unit]
                  ELSE [agent |-> [paid EXCEPT !.mood = clampStat(paid.mood - 25 * Unit)],
                        other |-> other, res |-> resource_level,
                        is_exited |-> FALSE, delta_U |-> -100 * Unit]
          ELSE [agent |-> base, other |-> other, res |-> resource_level,
                is_exited |-> FALSE, delta_U |-> 0]
    IN  [ agent |-> FinalClamp(branch.agent),
          other |-> branch.other,
          resource_level |-> Regenerate(branch.res),
          is_exited |-> branch.is_exited,
          delta_U |-> branch.delta_U ]

\* ---------------------------------------------------------- decision policy
\* main.py _state_key
state_key(agent, action_code) ==
    <<agent.position, agent.sustenance > 50 * Unit, agent.reputation > 50 * Unit, action_code>>

\* main.py decide_action, the score of one candidate action
\* (w_Sustenance = 1.0, w_Purpose_Goal = 0.2)
Utility(agent, act) ==
    TrackerGet(agent.action_utility_tracker, state_key(agent, act))
      + (100 * Unit - agent.sustenance)
      + (IF agent.personal_goal = GoalLimits /\ act = 12 THEN 20 * Unit ELSE 0)

\* main.py decide_action, exploitation: random.sample draws 5 distinct actions in
\* some order and the first of the highest score wins.  act can win exactly when
\* a sample can hold it with 4 others none of which scores higher (it may come
\* first among them).
ExploitChoices(agent) ==
    { act \in ActionCodes :
        Cardinality({b \in ActionCodes \ {act} : Utility(agent, b) <= Utility(agent, act)}) >= 4 }

\* main.py decide_action, exploration: random.random() < rate can happen when
\* rate > 0, and then any action is drawn; it can fail when rate < 1
ActionChoices(agent) ==
    (IF get_exploration_rate(agent) > 0 THEN ActionCodes ELSE {})
      \cup (IF get_exploration_rate(agent) < Unit THEN ExploitChoices(agent) ELSE {})

\* main.py decide_action, the targets it may return: one of the other agents of
\* the population that is not Dependent, None when there is none
TargetChoices(heap, population, self) ==
    LET others == {i \in Range(population) : i # self /\ heap[i].relationship_status # "Dependent"}
    IN  IF others = {} THEN {None} ELSE others

\* main.py Simulation.step, the Q update (alpha = 0.5):
\* cur_Q + alpha * (delta_U - cur_Q), rounded to nearest, ties to even
QUpdateAway(cur_Q, delta_U) == cur_Q - RoundDiv(delta_U - cur_Q, 2)
QUpdate(cur_Q, delta_U) == RoundDiv(2 * cur_Q + (delta_U - cur_Q), 2)

\* -------------------------------------------------------------- Simulation
VARIABLES
    persons,          \* the Person objects constructed so far, by identity
    agents,           \* Simulation.agents: the population, a list of identities
    resource_level,   \* World.resource_level
    global_clock,     \* Simulation.global_clock
    turns,            \* Simulation.turns
    exit_log,         \* Simulation.exit_log
    metrics,          \* Simulation.metrics
    pc,               \* where run() is: "idle" between ticks, "sweep" in step()'s loop, "done"
    idx,              \* step(): the place of the loop over list(self.agents)
    agents_to_remove, \* step(): its local list
    new_children,     \* step(): its local list
    atStart,          \* history: the population, Persons and pool when the tick began
    calls,            \* history: the process_action calls of the tick, in order
    zeroed,           \* history: who had health or sustenance at 0 at some point of the tick
    learn             \* the value of one tracker entry under repeated updates (SpecLearn)

vars == <<persons, agents, resource_level, global_clock, turns, exit_log, metrics,
          pc, idx, agents_to_remove, new_children, atStart, calls, zeroed, learn>>

simVars == <<persons, agents, resource_level, global_clock, turns, exit_log, metrics,
             pc, idx, agents_to_remove, new_children, atStart, calls, zeroed>>

\* main.py Simulation.__init__: the initial population
InitialPopulation ==
    << NewPerson("Leo", 25, <<1, 1>>, "Single", GoalWealth, 85 * Unit, 500),
       NewPerson("Clara", 22, <<9, 9>>, "Single", GoalLove, 60 * Unit, 500),
       NewPerson("Elara", 30, <<5, 5>>, "Single", GoalLimits, 5 * Unit, 500) >>

\* The states a run starts from here: the state Simulation.__init__ builds, and
\* three states later in a run (the tick counter, the ages and the ticks
\* survived say how much later), each
\* [persons, agents, resource_level, global_clock, exit_log].
StartOfRun ==
    [ persons |-> InitialPopulation, agents |-> <<1, 2, 3>>,
      resource_level |-> RESOURCE_MAX, global_clock |-> 0, exit_log |-> <<>> ]

\* Tick 365 of a run in which Clara tried the exit twice and starved on tick 3,
\* Elara had a child with Leo on tick 1 and then lived off the market, and Leo
\* walked to the market cell, rested when hungry and has just tried the exit:
\* he is out of sustenance, the child is one tick from maturing, the pool is
\* just short of one visit.
LateFamily ==
    [ persons |->
        << [NewPerson("Leo", 26, <<5, 5>>, "Single", GoalWealth, 85000, 500) EXCEPT
              !.turns_survived = 365, !.health = 88110, !.sustenance = 0, !.mood = 75000,
              !.self_confidence = 70000, !.reputation = 50000, !.is_alive = TRUE, !.progeny_count = 0,
              !.action_utility_tracker =
                  <<<<1, 1>>, TRUE, FALSE, 2>> :> 5500
                  @@ <<<<2, 1>>, TRUE, FALSE, 2>> :> 5500
                  @@ <<<<3, 1>>, TRUE, FALSE, 2>> :> 5500
                  @@ <<<<4, 1>>, TRUE, FALSE, 2>> :> 5500
                  @@ <<<<5, 1>>, TRUE, FALSE, 0>> :> 5500
                  @@ <<<<5, 2>>, TRUE, FALSE, 0>> :> 5500
                  @@ <<<<5, 3>>, TRUE, FALSE, 0>> :> 5500
                  @@ <<<<5, 4>>, TRUE, FALSE, 0>> :> 5500
                  @@ <<<<5, 5>>, TRUE, FALSE, 6>> :> 10000
                  @@ <<<<5, 5>>, FALSE, FALSE, 6>> :> 10000
                  @@ <<<<5, 5>>, FALSE, FALSE, 5>> :> 19922
                  @@ <<<<5, 5>>, FALSE, FALSE, 12>> :> -45000],
           [NewPerson("Clara", 22, <<9, 9>>, "Single", GoalLove, 60000, 500) EXCEPT
              !.turns_survived = 2, !.health = 79810, !.sustenance = 0, !.mood = 30000,
              !.self_confidence = 70000, !.reputation = 50000, !.is_alive = FALSE, !.progeny_count = 0,
              !.action_utility_tracker =
                  <<<<9, 9>>, TRUE, FALSE, 12>> :> -45000
                  @@ <<<<9, 9>>, FALSE, FALSE, 12>> :> -45000],
           [NewPerson("Elara", 31, <<5, 5>>, "Single", GoalLimits, 5000, 500) EXCEPT
              !.turns_survived = 365, !.health = 99720, !.sustenance = 97980, !.mood = 65000,
              !.self_confidence = 70000, !.reputation = 100000, !.is_alive = TRUE, !.progeny_count = 1,
              !.action_utility_tracker =
                  <<<<5, 5>>, TRUE, FALSE, 10>> :> 10000
                  @@ <<<<5, 5>>, TRUE, FALSE, 6>> :> 10000
                  @@ <<<<5, 5>>, TRUE, FALSE, 4>> :> 40000
                  @@ <<<<5, 5>>, TRUE, TRUE, 4>> :> 70000
                  @@ <<<<5, 5>>, TRUE, TRUE, 6>> :> 10000],
           [NewPerson("Anya_10", 0, <<5, 5>>, "Dependent", GoalLove, 45000, 500) EXCEPT
              !.turns_survived = 364, !.health = 92500, !.sustenance = 100000, !.mood = 65000,
              !.self_confidence = 70000, !.reputation = 50000, !.is_alive = TRUE, !.progeny_count = 0,
              !.action_utility_tracker =
                  EmptyTracker] >>,
      agents |-> <<1, 3, 4>>,
      resource_level |-> 45000, global_clock |-> 365, exit_log |-> <<>> ]


\* Tick 223 of a run in which Leo tried the exit twice and starved on tick 3,
\* Clara walked to the market cell, heard Elara's belief ten times, tried the
\* exit three times with a market visit after each, rested once and then only
\* reflected, and Elara lived off the market: Clara's mood is nearly gone, her
\* sustenance is below the cost of one action, the pool is just short of one
\* visit.
WornPair ==
    [ persons |->
        << [NewPerson("Leo", 25, <<1, 1>>, "Single", GoalWealth, 85000, 500) EXCEPT
              !.turns_survived = 2, !.health = 79810, !.sustenance = 0, !.mood = 30000,
              !.self_confidence = 70000, !.reputation = 50000, !.is_alive = FALSE, !.progeny_count = 0,
              !.action_utility_tracker =
                  <<<<1, 1>>, TRUE, FALSE, 12>> :> -45000
                  @@ <<<<1, 1>>, FALSE, FALSE, 12>> :> -45000],
           [NewPerson("Clara", 22, <<5, 5>>, "Single", GoalLove, 15828, 500) EXCEPT
              !.turns_survived = 223, !.health = 78890, !.sustenance = 10, !.mood = 5000,
              !.self_confidence = 70000, !.reputation = 65000, !.is_alive = TRUE, !.progeny_count = 0,
              !.action_utility_tracker =
                  <<<<9, 9>>, TRUE, FALSE, 3>> :> 5500
                  @@ <<<<8, 9>>, TRUE, FALSE, 3>> :> 5500
                  @@ <<<<7, 9>>, TRUE, FALSE, 3>> :> 5500
                  @@ <<<<6, 9>>, TRUE, FALSE, 3>> :> 5500
                  @@ <<<<5, 9>>, TRUE, FALSE, 1>> :> 5500
                  @@ <<<<5, 8>>, TRUE, FALSE, 1>> :> 5500
                  @@ <<<<5, 7>>, TRUE, FALSE, 1>> :> 5500
                  @@ <<<<5, 6>>, TRUE, FALSE, 1>> :> 5500
                  @@ <<<<5, 5>>, TRUE, FALSE, 6>> :> 10000
                  @@ <<<<5, 5>>, TRUE, FALSE, 12>> :> -45000
                  @@ <<<<5, 5>>, FALSE, FALSE, 4>> :> 40000
                  @@ <<<<5, 5>>, TRUE, TRUE, 12>> :> -72500
                  @@ <<<<5, 5>>, FALSE, TRUE, 4>> :> 55000
                  @@ <<<<5, 5>>, TRUE, TRUE, 5>> :> 15000
                  @@ <<<<5, 5>>, TRUE, TRUE, 6>> :> 10000
                  @@ <<<<5, 5>>, FALSE, TRUE, 6>> :> 10000],
           [NewPerson("Elara", 30, <<5, 5>>, "Single", GoalLimits, 5000, 500) EXCEPT
              !.turns_survived = 223, !.health = 99720, !.sustenance = 97980, !.mood = 65000,
              !.self_confidence = 70000, !.reputation = 100000, !.is_alive = TRUE, !.progeny_count = 0,
              !.action_utility_tracker =
                  <<<<5, 5>>, TRUE, FALSE, 6>> :> 10000
                  @@ <<<<5, 5>>, TRUE, FALSE, 11>> :> 6777
                  @@ <<<<5, 5>>, TRUE, FALSE, 4>> :> 40000
                  @@ <<<<5, 5>>, TRUE, TRUE, 4>> :> 70000
                  @@ <<<<5, 5>>, TRUE, TRUE, 6>> :> 10000] >>,
      agents |-> <<2, 3>>,
      resource_level |-> 45000, global_clock |-> 223, exit_log |-> <<>> ]


\* Tick 363 of a run in which Leo and Clara tried the exit twice and starved on
\* tick 3, and Elara walked to the western edge, ran into it once and stayed:
\* she is alone, two ticks from her next birthday.
LoneElara ==
    [ persons |->
        << [NewPerson("Leo", 25, <<1, 1>>, "Single", GoalWealth, 85000, 500) EXCEPT
              !.turns_survived = 2, !.health = 79810, !.sustenance = 0, !.mood = 30000,
              !.self_confidence = 70000, !.reputation = 50000, !.is_alive = FALSE, !.progeny_count = 0,
              !.action_utility_tracker =
                  <<<<1, 1>>, TRUE, FALSE, 12>> :> -45000
                  @@ <<<<1, 1>>, FALSE, FALSE, 12>> :> -45000],
           [NewPerson("Clara", 22, <<9, 9>>, "Single", GoalLove, 60000, 500) EXCEPT
              !.turns_survived = 2, !.health = 79810, !.sustenance = 0, !.mood = 30000,
              !.self_confidence = 70000, !.reputation = 50000, !.is_alive = FALSE, !.progeny_count = 0,
              !.action_utility_tracker =
                  <<<<9, 9>>, TRUE, FALSE, 12>> :> -45000
                  @@ <<<<9, 9>>, FALSE, FALSE, 12>> :> -45000],
           [NewPerson("Elara", 30, <<0, 5>>, "Single", GoalLimits, 5000, 500) EXCEPT
              !.turns_survived = 363, !.health = 98250, !.sustenance = 21685, !.mood = 85000,
              !.self_confidence = 70000, !.reputation = 50000, !.is_alive = TRUE, !.progeny_count = 0,
              !.action_utility_tracker =
                  <<<<5, 5>>, TRUE, FALSE, 3>> :> 5500
                  @@ <<<<4, 5>>, TRUE, FALSE, 3>> :> 5500
                  @@ <<<<3, 5>>, TRUE, FALSE, 3>> :> 5500
                  @@ <<<<2, 5>>, TRUE, FALSE, 3>> :> 5500
                  @@ <<<<1, 5>>, TRUE, FALSE, 3>> :> 5500
                  @@ <<<<0, 5>>, TRUE, FALSE, 3>> :> 2500
                  @@ <<<<0, 5>>, TRUE, FALSE, 6>> :> 10000
                  @@ <<<<0, 5>>, FALSE, FALSE, 6>> :> 10000
                  @@ <<<<0, 5>>, FALSE, FALSE, 5>> :> 19922] >>,
      agents |-> <<3>>,
      resource_level |-> 1000000, global_clock |-> 363, exit_log |-> <<>> ]

\* Tick 224 of WornPair's run: Clara has reflected once more and is out of
\* sustenance, Elara has taken the 50 the pool had reached.
SpentPair ==
    [ persons |->
        << [NewPerson("Leo", 25, <<1, 1>>, "Single", GoalWealth, 85000, 500) EXCEPT
              !.turns_survived = 2, !.health = 79810, !.sustenance = 0, !.mood = 30000,
              !.self_confidence = 70000, !.reputation = 50000, !.is_alive = FALSE, !.progeny_count = 0,
              !.action_utility_tracker =
                  <<<<1, 1>>, TRUE, FALSE, 12>> :> -45000
                  @@ <<<<1, 1>>, FALSE, FALSE, 12>> :> -45000],
           [NewPerson("Clara", 22, <<5, 5>>, "Single", GoalLove, 15828, 500) EXCEPT
              !.turns_survived = 224, !.health = 78820, !.sustenance = 0, !.mood = 5000,
              !.self_confidence = 70000, !.reputation = 65000, !.is_alive = TRUE, !.progeny_count = 0,
              !.action_utility_tracker =
                  <<<<9, 9>>, TRUE, FALSE, 3>> :> 5500
                  @@ <<<<8, 9>>, TRUE, FALSE, 3>> :> 5500
                  @@ <<<<7, 9>>, TRUE, FALSE, 3>> :> 5500
                  @@ <<<<6, 9>>, TRUE, FALSE, 3>> :> 5500
                  @@ <<<<5, 9>>, TRUE, FALSE, 1>> :> 5500
                  @@ <<<<5, 8>>, TRUE, FALSE, 1>> :> 5500
                  @@ <<<<5, 7>>, TRUE, FALSE, 1>> :> 5500
                  @@ <<<<5, 6>>, TRUE, FALSE, 1>> :> 5500
                  @@ <<<<5, 5>>, TRUE, FALSE, 6>> :> 10000
                  @@ <<<<5, 5>>, TRUE, FALSE, 12>> :> -45000
                  @@ <<<<5, 5>>, FALSE, FALSE, 4>> :> 40000
                  @@ <<<<5, 5>>, TRUE, TRUE, 12>> :> -72500
                  @@ <<<<5, 5>>, FALSE, TRUE, 4>> :> 55000
                  @@ <<<<5, 5>>, TRUE, TRUE, 5>> :> 15000
                  @@ <<<<5, 5>>, TRUE, TRUE, 6>> :> 10000
                  @@ <<<<5, 5>>, FALSE, TRUE, 6>> :> 10000],
           [NewPerson("Elara", 30, <<5, 5>>, "Single", GoalLimits, 5000, 500) EXCEPT
              !.turns_survived = 224, !.health = 100000, !.sustenance = 100000, !.mood = 65000,
              !.self_confidence = 70000, !.reputation = 100000, !.is_alive = TRUE, !.progeny_count = 0,
              !.action_utility_tracker =
                  <<<<5, 5>>, TRUE, FALSE, 6>> :> 10000
                  @@ <<<<5, 5>>, TRUE, FALSE, 11>> :> 6777
                  @@ <<<<5, 5>>, TRUE, FALSE, 4>> :> 40000
                  @@ <<<<5, 5>>, TRUE, TRUE, 4>> :> 70000
                  @@ <<<<5, 5>>, TRUE, TRUE, 6>> :> 10000] >>,
      agents |-> <<2, 3>>,
      resource_level |-> 5000, global_clock |-> 224, exit_log |-> <<>> ]


\* Tick 505 of a run in which Leo and Clara tried the exit twice and starved on
\* tick 3, and Elara walked to the corner (0, 0) and then along the rows of
\* the grid, back and forth, reflecting and socialising (actions 6 to 9) on
\* every cell and resting when her sustenance fell below 60: the keys her
\* value memory holds by then, 500 of them
WandererTracker ==
    [k \in (((1 .. 5) \X {5}))
            \X {TRUE} \X {FALSE} \X {3} |-> 3250]
    @@ [k \in (({0} \X (1 .. 5)))
            \X {TRUE} \X {FALSE} \X {1} |-> 5500]
    @@ [k \in (((0 .. 9) \X (0 .. 8)) \cup ((4 .. 9) \X {9}))
            \X {TRUE} \X {FALSE} \X {6, 7, 8, 9} |-> 10000]
    @@ [k \in (((0 .. 8) \X {0, 2, 4, 6, 8}))
            \X {TRUE} \X {FALSE} \X {2} |-> 5500]
    @@ [k \in (({9} \X {0, 2, 4, 6, 8}) \cup ({0} \X {1, 3, 5, 7}))
            \X {TRUE} \X {FALSE} \X {0} |-> 5500]
    @@ [k \in (((1 .. 9) \X {1, 3, 7}) \cup ((6 .. 9) \X {5}) \cup ((4 .. 9) \X {9}))
            \X {TRUE} \X {FALSE} \X {3} |-> 5500]
    @@ [k \in (({0, 5} \X {1, 5}) \cup ({5} \X {2, 6, 9}) \cup ({2, 8} \X {3, 4, 7, 8}))
            \X {TRUE} \X {FALSE} \X {5} |-> 15000]

\* and the state of the run: she has just stepped onto (3, 9).
Wanderer ==
    [ persons |->
        << [NewPerson("Leo", 25, <<1, 1>>, "Single", GoalWealth, 85000, 500) EXCEPT
              !.turns_survived = 2, !.health = 79810, !.sustenance = 0, !.mood = 30000,
              !.self_confidence = 70000, !.reputation = 50000, !.is_alive = FALSE, !.progeny_count = 0,
              !.action_utility_tracker =
                  <<<<1, 1>>, TRUE, FALSE, 12>> :> -45000
                  @@ <<<<1, 1>>, FALSE, FALSE, 12>> :> -45000],
           [NewPerson("Clara", 22, <<9, 9>>, "Single", GoalLove, 60000, 500) EXCEPT
              !.turns_survived = 2, !.health = 79810, !.sustenance = 0, !.mood = 30000,
              !.self_confidence = 70000, !.reputation = 50000, !.is_alive = FALSE, !.progeny_count = 0,
              !.action_utility_tracker =
                  <<<<9, 9>>, TRUE, FALSE, 12>> :> -45000
                  @@ <<<<9, 9>>, FALSE, FALSE, 12>> :> -45000],
           [NewPerson("Elara", 31, <<3, 9>>, "Single", GoalLimits, 5000, 500) EXCEPT
              !.turns_survived = 505, !.health = 99440, !.sustenance = 69975, !.mood = 100000,
              !.self_confidence = 70000, !.reputation = 50000, !.is_alive = TRUE, !.progeny_count = 0,
              !.action_utility_tracker = WandererTracker] >>,
      agents |-> <<3>>,
      resource_level |-> 1000000, global_clock |-> 505, exit_log |-> <<>> ]


Scenarios == {StartOfRun, LateFamily, WornPair, SpentPair, LoneElara, Wanderer}

\* The agents of a scenario that act (those not Dependent)
Actors(sc) ==
    Cardinality({i \in Range(sc.agents) : sc.persons[i].relationship_status # "Dependent"})

NoStart == [agents |-> <<>>, persons |-> <<>>, resource_level |-> 0]
LearnIdle == [old |-> 10 * Unit, reward |-> 10 * Unit, new |-> 10 * Unit]

\* main.py Simulation.__init__ (and, for the later states, the run so far)
Init ==
    \E sc \in Scenarios, t \in 0 .. MaxTurns :
        /\ Actors(sc) * t <= MaxWork
        /\ persons = sc.persons
        /\ agents = sc.agents
        /\ resource_level = sc.resource_level
        /\ global_clock = sc.global_clock
        /\ turns = sc.global_clock + t
        /\ exit_log = sc.exit_log
        /\ metrics = <<>>
        /\ pc = "idle"
        /\ idx = 0
        /\ agents_to_remove = <<>>
        /\ new_children = <<>>
        /\ atStart = NoStart
        /\ calls = <<>>
        /\ zeroed = {}
        /\ learn = LearnIdle

\* A Person with health or sustenance at 0
AtZero(p) == p.health <= 0 \/ p.sustenance <= 0

\* main.py Simulation.step, the ideological shock of an exit
IdeologyShock(heap, population, exiter) ==
    [i \in DOMAIN heap |->
        IF i \in Range(population) /\ i # exiter /\ heap[i].TiR_score < 50 * Unit
        THEN [heap[i] EXCEPT !.self_confidence = 100 * Unit,
                             !.TiR_score = Max(0, heap[i].TiR_score - 20 * Unit)]
        ELSE heap[i]]

\* "grief + remove" with the removal left out
RECURSIVE GriefAndKeep(_, _, _, _)
GriefAndKeep(heap, population, to_remove, k) ==
    IF k > Len(to_remove)
    THEN [persons |-> heap, agents |-> population]
    ELSE LET deceased == to_remove[k]
             survivors == {a \in Range(population) :
                             a # deceased /\ a \notin Range(to_remove)}
             grieved == [i \in DOMAIN heap |->
                           IF i \in survivors THEN grieve_loss(heap[i], heap[deceased])
                           ELSE heap[i]]
         IN  GriefAndKeep(grieved, population, to_remove, k + 1)

\* "grief + remove" with grief for the dead only
RECURSIVE GriefForDeathsOnly(_, _, _, _)
GriefForDeathsOnly(heap, population, to_remove, k) ==
    IF k > Len(to_remove)
    THEN [persons |-> heap, agents |-> population]
    ELSE LET deceased == to_remove[k]
             survivors == {a \in Range(population) :
                             a # deceased /\ a \notin Range(to_remove)
                               /\ ~heap[deceased].is_alive}
             grieved == [i \in DOMAIN heap |->
                           IF i \in survivors THEN grieve_loss(heap[i], heap[deceased])
                           ELSE heap[i]]
             Stays(a) == a # deceased
         IN  GriefForDeathsOnly(grieved, SelectSeq(population, Stays), to_remove, k + 1)

\* main.py Simulation.step, "grief + remove": from the k-th entry of to_remove on,
\* every agent of the population that is neither that entry nor in to_remove
\* grieves, and the entry leaves the population.  [persons, agents] afterwards.
RECURSIVE GriefAndRemove(_, _, _, _)
GriefAndRemove(heap, population, to_remove, k) ==
    IF k > Len(to_remove)
    THEN [persons |-> heap, agents |-> population]
    ELSE LET deceased == to_remove[k]
             survivors == {a \in Range(population) :
                             a # deceased /\ a \notin Range(to_remove)}
             grieved == [i \in DOMAIN heap |->
                           IF i \in survivors THEN grieve_loss(heap[i], heap[deceased])
                           ELSE heap[i]]
             Stays(a) == a # deceased
         IN  GriefAndRemove(grieved, SelectSeq(population, Stays), to_remove, k + 1)

\* The snapshot with the population counted before the removals
SnapshotOfStart(heap, population, clock, exited, pool) ==
    LET tirs == [i \in 1 .. Len(population) |-> heap[population[i]].TiR_score]
    IN  [ tick |-> clock,
          population |-> Len(atStart.agents),
          exited |-> Len(exited),
          resource_level |-> pool,
          avg_TiR |-> IF Len(population) > 0
                      THEN RoundDiv(SumSeq(tirs), Len(population)) ELSE 0 ]

\* main.py Simulation.step, the snapshot appended to metrics
Snapshot(heap, population, clock, exited, pool) ==
    LET tirs == [i \in 1 .. Len(population) |-> heap[population[i]].TiR_score]
    IN  [ tick |-> clock,
          population |-> Len(population),
          exited |-> Len(exited),
          resource_level |-> pool,
          avg_TiR |-> IF Len(population) > 0
                      THEN RoundDiv(SumSeq(tirs), Len(population)) ELSE 0 ]

\* main.py Simulation.run: the next of the `turns` calls of step() begins
BeginStep ==
    /\ pc = "idle"
    /\ global_clock < turns
    /\ global_clock' = global_clock + 1
    /\ agents_to_remove' = <<>>
    /\ new_children' = <<>>
    /\ idx' = 1
    /\ pc' = "sweep"
    /\ atStart' = [agents |-> agents, persons |-> persons, resource_level |-> resource_level]
    /\ calls' = <<>>
    /\ zeroed' = {}
    /\ UNCHANGED <<persons, agents, resource_level, turns, exit_log, metrics, learn>>

\* main.py Simulation.step, what the loop body does to a Dependent agent
DependentTickKeepsAge(p) ==
    LET t == [p EXCEPT !.turns_survived = p.turns_survived + 1]
    IN  IF t.turns_survived >= CYCLES_PER_DEPENDENT_YEAR
        THEN [t EXCEPT !.relationship_status = "Single"]
        ELSE t
DependentTickRestartsCount(p) ==
    LET t == [p EXCEPT !.turns_survived = p.turns_survived + 1]
    IN  IF t.turns_survived >= CYCLES_PER_DEPENDENT_YEAR
        THEN [t EXCEPT !.relationship_status = "Single", !.age_years = 10,
                       !.turns_survived = 0]
        ELSE t
DependentTick(p) ==
    LET t == [p EXCEPT !.turns_survived = p.turns_survived + 1]
    IN  IF t.turns_survived >= CYCLES_PER_DEPENDENT_YEAR
        THEN [t EXCEPT !.relationship_status = "Single", !.age_years = 10]
        ELSE t

\* main.py Simulation.step, the loop body for a Dependent agent
DependentTurn ==
    /\ pc = "sweep"
    /\ idx <= Len(agents)
    /\ persons[agents[idx]].relationship_status = "Dependent"
    /\ persons' = [persons EXCEPT ![agents[idx]] = DependentTick(persons[agents[idx]])]
    /\ idx' = idx + 1
    /\ UNCHANGED <<agents, resource_level, global_clock, turns, exit_log, metrics, pc,
                   agents_to_remove, new_children, atStart, calls, zeroed, learn>>

\* main.py Simulation.step, the loop body for an agent apply_aging_and_decay
\* reports dead
DeathTurn ==
    /\ pc = "sweep"
    /\ idx <= Len(agents)
    /\ persons[agents[idx]].relationship_status # "Dependent"
    /\ LET a == agents[idx]
       IN  \E out \in apply_aging_and_decay(persons[a]) :
              /\ out.died
              /\ persons' = [persons EXCEPT ![a] = out.person]
              /\ agents_to_remove' = Append(agents_to_remove, a)
              /\ zeroed' = zeroed \cup
                    (IF AtZero(Decayed(persons[a])) THEN {<<a, "decay">>} ELSE {})
    /\ idx' = idx + 1
    /\ UNCHANGED <<agents, resource_level, global_clock, turns, exit_log, metrics, pc,
                   new_children, atStart, calls, learn>>

\* main.py Simulation.step, the loop body for an agent that lives and acts:
\* decide_action, process_action, the Q update, the exit's shock, the child.
\* (\E x \in {e} names the value of e.)
ActTurn ==
    /\ pc = "sweep"
    /\ idx <= Len(agents)
    /\ persons[agents[idx]].relationship_status # "Dependent"
    /\ \E a \in {agents[idx]} :
       \E out \in apply_aging_and_decay(persons[a]) :
       /\ ~out.died
       /\ \E aged \in {[persons EXCEPT ![a] = out.person]} :
          \E action \in ActionChoices(out.person),
             target \in TargetChoices(aged, agents, a) :
          \E lucky \in (IF action = 12 THEN BOOLEAN ELSE {FALSE}),
             child_name \in (IF action = 10 /\ target # None THEN ChildNames ELSE {NoName}),
             child_goal \in (IF action = 10 /\ target # None THEN ChildGoals ELSE {GoalWealth}) :
          \E key \in {state_key(out.person, action)},
             r \in {process_action(out.person,
                                   IF target # None THEN aged[target] ELSE out.person,
                                   target # None, action, lucky, resource_level)} :
          \E cur_Q \in {TrackerGet(r.agent.action_utility_tracker, key)} :
          \E new_Q \in {QUpdate(cur_Q, r.delta_U)} :
          \E learned \in {[r.agent EXCEPT !.action_utility_tracker =
                              TrackerPut(r.agent.action_utility_tracker, key, new_Q)]} :
          \E acted \in {[i \in DOMAIN aged |->
                            IF i = a THEN learned
                            ELSE IF i = target THEN r.other
                            ELSE aged[i]]} :
          \E shocked \in {IF r.is_exited THEN IdeologyShock(acted, agents, a) ELSE acted} :
              /\ IF action = 10 /\ target # None
                 THEN /\ persons' = Append(
                            [shocked EXCEPT ![a].progeny_count = shocked[a].progeny_count + 1],
                            create_child(shocked[a], shocked[target], child_name, child_goal))
                      /\ new_children' = Append(new_children, Len(persons) + 1)
                 ELSE /\ persons' = shocked
                      /\ new_children' = new_children
              /\ resource_level' = r.resource_level
              /\ exit_log' = IF r.is_exited THEN Append(exit_log, a) ELSE exit_log
              /\ agents_to_remove' = IF r.is_exited
                                     THEN Append(agents_to_remove, a)
                                     ELSE agents_to_remove
              /\ calls' = Append(calls,
                    [ actor |-> a, target |-> target, action |-> action,
                      lucky |-> lucky, before |-> out.person, after |-> r.agent,
                      other_before |-> IF target # None THEN aged[target] ELSE out.person,
                      other_after |-> r.other,
                      gone_before |-> {i \in Range(agents) :
                                         ~aged[i].is_alive \/ i \in Range(exit_log)},
                      pool_before |-> resource_level, pool_after |-> r.resource_level,
                      is_exited |-> r.is_exited, delta_U |-> r.delta_U,
                      cur_Q |-> cur_Q, new_Q |-> new_Q ])
              /\ zeroed' = zeroed
                    \cup (IF AtZero(Decayed(persons[a])) THEN {<<a, "decay">>} ELSE {})
                    \cup (IF AtZero(r.agent) THEN {<<a, "action">>} ELSE {})
    /\ idx' = idx + 1
    /\ UNCHANGED <<agents, global_clock, turns, metrics, pc, atStart, learn>>

\* main.py Simulation.step, after the loop: grief and removal, the children
\* join, the snapshot is recorded
EndStep ==
    /\ pc = "sweep"
    /\ idx > Len(agents)
    /\ LET g == GriefAndRemove(persons, agents, agents_to_remove, 1)
           population == g.agents \o new_children
       IN  /\ persons' = g.persons
           /\ agents' = population
           /\ metrics' = Append(metrics,
                 Snapshot(g.persons, population, global_clock, exit_log, resource_level))
           /\ zeroed' = zeroed \cup
                 {<<i, "grief">> : i \in {j \in DOMAIN persons :
                     AtZero(g.persons[j]) /\ g.persons[j] # persons[j]}}
    /\ pc' = "idle"
    /\ UNCHANGED <<resource_level, global_clock, turns, exit_log, idx,
                   agents_to_remove, new_children, atStart, calls, learn>>

\* main.py Simulation.run, after the loop: the run's ticks are over (the files
\* run() then writes are left out)
Finish ==
    /\ pc = "idle"
    /\ global_clock = turns
    /\ pc' = "done"
    /\ UNCHANGED <<persons, agents, resource_level, global_clock, turns, exit_log,
                   metrics, idx, agents_to_remove, new_children, atStart, calls,
                   zeroed, learn>>

Next == BeginStep \/ DependentTurn \/ DeathTurn \/ ActTurn \/ EndStep \/ Finish

Spec == Init /\ [][Next]_vars

\* Where run() is, and where a step of it takes that: into the next call of
\* step(), on to the next agent of the sweep, out of the sweep, out of run()'s
\* loop.  Every step of Next is one of these, and one of these can be taken
\* exactly when a step of Next can (StepsProceed below).
Proceed ==
    \/ pc = "idle" /\ global_clock < turns /\ pc' = "sweep" /\ idx' = 1
    \/ pc = "sweep" /\ idx <= Len(agents) /\ pc' = "sweep" /\ idx' = idx + 1
    \/ pc = "sweep" /\ idx > Len(agents) /\ pc' = "idle" /\ idx' = idx
    \/ pc = "idle" /\ global_clock = turns /\ pc' = "done" /\ idx' = idx

\* run() is one sequential loop and every statement of step() completes, so a
\* step that can be taken is taken
FairSpec == Spec /\ WF_<<pc, idx>>(Proceed)

\* ------------------------------------------------- one tracker entry alone
\* The rewards one key can meet: the market action on the market cell earns
\* 70.0 or -15.0 as the pool allows (world.py process_action)
LearnRewards == {70 * Unit, -15 * Unit}

\* tracker.get(key, 10.0) of a key not seen yet
InitLearn ==
    /\ persons = StartOfRun.persons
    /\ agents = StartOfRun.agents
    /\ resource_level = StartOfRun.resource_level
    /\ global_clock = 0
    /\ turns = 0
    /\ exit_log = <<>>
    /\ metrics = <<>>
    /\ pc = "idle"
    /\ idx = 0
    /\ agents_to_remove = <<>>
    /\ new_children = <<>>
    /\ atStart = NoStart
    /\ calls = <<>>
    /\ zeroed = {}
    /\ learn = LearnIdle

\* main.py Simulation.step, the Q update of the entry, once more
LearnUpdate ==
    /\ \E delta_U \in LearnRewards :
          learn' = [old |-> learn.new, reward |-> delta_U,
                    new |-> QUpdate(learn.new, delta_U)]
    /\ UNCHANGED simVars

SpecLearn == InitLearn /\ [][LearnUpdate]_vars

\* ----------------------------------------------------------------- claims
\* A tick has completed and nothing has happened since
TickDone == pc \in {"idle", "done"} /\ atStart # NoStart

\* The agents born in the tick
BornThisTick == {i \in Range(agents) : i \notin Range(atStart.agents)}

InBounds(p) ==
    /\ 0 <= p.health /\ p.health <= MAX_HEALTH
    /\ 0 <= p.sustenance /\ p.sustenance <= 100 * Unit
    /\ 0 <= p.mood /\ p.mood <= 100 * Unit
    /\ 0 <= p.self_confidence /\ p.self_confidence <= 100 * Unit
    /\ 0 <= p.reputation /\ p.reputation <= 100 * Unit
    /\ 0 <= p.TiR_score /\ p.TiR_score <= 100 * Unit

C2_PoolInBounds ==
    0 <= resource_level /\ resource_level <= RESOURCE_MAX

\* C2's case: a tick with a failed and a successful market visit.
C2_Witness ==
    /\ \E c \in Range(calls) : c.action = 4 /\ c.pool_after < c.pool_before
    /\ \E c \in Range(calls) : c.action = 4 /\ c.pool_after > c.pool_before

\* No call of the tick took from the pool
NoMarketVisit == \A c \in Range(calls) : ~(c.action = 4 /\ c.delta_U = 70 * Unit)

\* C3: in every tick the pool's regeneration, resource_level :=
\* min(resource_max, resource_level + rate), is applied exactly once, however
\* many agents acted: a tick in which nothing was taken from the pool leaves it
\* at min(resource_max, its level when the tick began + rate).
C3_RegenOncePerTick ==
    (TickDone /\ NoMarketVisit) =>
        resource_level = Min(RESOURCE_MAX, atStart.resource_level + MARKET_REGENERATION_RATE)

\* C4 as claimed: an agent whose health or sustenance was at 0 at any point of
\* the tick (after the decay, after its action, after grief) is not in the
\* population when the tick completes.
C4_ZeroedAreRemoved ==
    TickDone => \A z \in zeroed : z[1] \notin Range(agents)

\* C4, amended: an agent whose health or sustenance is at 0 after the tick's
\* decay (apply_aging_and_decay) is not in the population when the tick
\* completes.
C4_DecayZeroedAreRemoved ==
    TickDone => \A z \in zeroed : z[2] = "decay" => z[1] \notin Range(agents)

\* C4's case: a tick in which the decay left an agent of the population at 0.
C4_Witness ==
    /\ TickDone
    /\ \E z \in zeroed : z[2] = "decay" /\ z[1] \in Range(atStart.agents)

\* The mood a survivor is left with by the removals of the tick: 15 for each,
\* 40 for the one that was its partner (whose name it then forgets)
MoodAfterGrief(s) ==
    LET k == Len(agents_to_remove)
        partner == \E j \in 1 .. k :
                     persons[agents_to_remove[j]].name = persons[s].partner_name
        total == IF partner THEN 40 * Unit + 15 * Unit * (k - 1) ELSE 15 * Unit * k
    IN  Max(0, persons[s].mood - total)

GrievedAsClaimed(s) ==
    LET partner == \E j \in 1 .. Len(agents_to_remove) :
                     persons[agents_to_remove[j]].name = persons[s].partner_name
    IN  /\ persons'[s].mood = MoodAfterGrief(s)
        /\ IF partner
           THEN /\ persons'[s].relationship_status = "Grieving"
                /\ persons'[s].partner_name = NoName
                /\ persons'[s].personal_goal = GoalRecovery
           ELSE /\ persons'[s].relationship_status = persons[s].relationship_status
                /\ persons'[s].partner_name = persons[s].partner_name
                /\ persons'[s].personal_goal = persons[s].personal_goal

\* An agent died in the sweep that is ending
DeathInSweep == \E j \in 1 .. Len(agents_to_remove) : ~persons[agents_to_remove[j]].is_alive

\* C5 as claimed: when an agent dies in a tick, every agent that is in the
\* population after the tick has its mood reduced by 15 (clamped at 0) for the
\* death, or by 40 with status Grieving, partner cleared and the recovery goal
\* when the deceased was its partner; none is skipped.
C5_GriefReachesAllRemaining ==
    [][(pc = "sweep" /\ pc' = "idle" /\ DeathInSweep) =>
          \A s \in Range(agents') : GrievedAsClaimed(s)]_vars

\* C5, amended: when an agent dies in a tick, every agent that was in the
\* population when the tick began and is in it after the tick has its mood
\* reduced so (15 for each removal of the tick); none of them is skipped.
C5_GriefReachesStartPopulation ==
    [][(pc = "sweep" /\ pc' = "idle" /\ DeathInSweep) =>
          \A s \in Range(agents') : s \in Range(agents) => GrievedAsClaimed(s)]_vars

\* C5's case: a tick with a death after which an agent of the starting
\* population remains, its mood lowered.
C5_Witness ==
    /\ TickDone
    /\ \E d \in Range(agents_to_remove) : ~persons[d].is_alive
    /\ \E s \in Range(agents) :
          /\ s \in Range(atStart.agents)
          /\ persons[s].mood < atStart.persons[s].mood

\* The agents that began the tick Dependent
DependentAtStart ==
    {i \in Range(atStart.agents) : atStart.persons[i].relationship_status = "Dependent"}

\* C6: a Dependent agent never acts: on a tick it starts as Dependent (the tick
\* on which it matures included) it is the actor of no decide_action or
\* process_action call and its value memory is not updated; on the tick its
\* turns_survived reaches CYCLES_PER_DEPENDENT_YEAR its status becomes Single
\* and its age 10.
C6_DependentNeverActs ==
    /\ \A c \in Range(calls) : c.actor \notin DependentAtStart
    /\ \A i \in DependentAtStart :
          persons[i].action_utility_tracker = atStart.persons[i].action_utility_tracker
    /\ TickDone =>
          \A i \in DependentAtStart :
             /\ persons[i].turns_survived = atStart.persons[i].turns_survived + 1
             /\ IF persons[i].turns_survived >= CYCLES_PER_DEPENDENT_YEAR
                THEN persons[i].relationship_status = "Single" /\ persons[i].age_years = 10
                ELSE persons[i].relationship_status = "Dependent"

\* C6's case: a tick in which an agent that began it Dependent matured, while
\* another agent acted.
C6_Witness ==
    /\ TickDone
    /\ calls # <<>>
    /\ \E i \in DependentAtStart :
          /\ persons[i].relationship_status = "Single"
          /\ persons[i].age_years = 10
          /\ persons[i].turns_survived = CYCLES_PER_DEPENDENT_YEAR

\* C7: a process_action call with action 12 by an agent whose TiR_score >= 10
\* returns is_exited = False and reward -100 whatever the random draw, takes
\* the failed branch (mood -25), and the agent stays in the population.
C7_ExitNeedsLowAlignment ==
    \A c \in Range(calls) :
        (c.action = 12 /\ c.before.TiR_score >= 10 * Unit) =>
            /\ ~c.is_exited
            /\ c.delta_U = -100 * Unit
            /\ c.after.mood = Max(0, c.before.mood - 25 * Unit)
            /\ c.actor \in Range(agents)
            /\ c.actor \notin Range(agents_to_remove)
            /\ c.actor \notin Range(exit_log)

\* C7's case: an exit attempt by an agent with TiR_score >= 10 on which the
\* random draw came out in favour.
C7_Witness ==
    \E c \in Range(calls) :
        c.action = 12 /\ c.before.TiR_score >= 10 * Unit /\ c.lucky

\* The new value lies strictly between the old value and the reward
StrictlyBetween ==
    /\ Min(learn.old, learn.reward) < learn.new
    /\ learn.new < Max(learn.old, learn.reward)

\* C8 as claimed: for a learning update with old value q and reward r, if
\* r # q the new value lies strictly between q and r, and if r = q it equals q.
C8_UpdateStrictlyBetween ==
    IF learn.reward # learn.old THEN StrictlyBetween ELSE learn.new = learn.old

\* C8, amended: the new value lies between q and r, ends included, strictly
\* between them when they are more than one unit of the arithmetic's
\* resolution apart; if r = q it equals q.
C8_UpdateBetween ==
    /\ Min(learn.old, learn.reward) <= learn.new
    /\ learn.new <= Max(learn.old, learn.reward)
    /\ Abs(learn.reward - learn.old) > 1 => StrictlyBetween
    /\ learn.reward = learn.old => learn.new = learn.old

\* C8's case: an update whose old value and reward are one unit apart.
C8_Witness ==
    Abs(learn.reward - learn.old) = 1 /\ learn.new \in {learn.old, learn.reward}

\* C10: a market visit (action 4) by an agent on the market cell while
\* resource_level >= 50 takes exactly 50 from the pool (the call's only other
\* change to it being the regeneration), leaves the agent's sustenance no lower
\* than before the call and at most 100, and returns reward 70; with either
\* condition false it takes nothing and returns reward -15.
C10_MarketVisit ==
    \A c \in Range(calls) :
        c.action = 4 =>
            IF c.before.position = THE_MARKET /\ c.pool_before >= 50 * Unit
            THEN /\ c.pool_after =
                      Min(RESOURCE_MAX, c.pool_before - 50 * Unit + MARKET_REGENERATION_RATE)
                 /\ c.after.sustenance >= c.before.sustenance
                 /\ c.after.sustenance <= 100 * Unit
                 /\ c.delta_U = 70 * Unit
            ELSE /\ c.pool_after = Min(RESOURCE_MAX, c.pool_before + MARKET_REGENERATION_RATE)
                 /\ c.delta_U = -15 * Unit

\* C10's case: a tick with a visit that raised a low sustenance, a visit off
\* the market cell or short of stock, and a visit that found the agent full.
C10_Witness ==
    /\ \E c \in Range(calls) :
          /\ c.action = 4 /\ c.delta_U = 70 * Unit
          /\ c.after.sustenance > c.before.sustenance
    /\ \E c \in Range(calls) : c.action = 4 /\ c.delta_U = -15 * Unit

\* The agents that have died (apply_aging_and_decay returned True, which sets
\* is_alive to False) or exited (process_action returned is_exited, which puts
\* them on exit_log)
Gone(heap, exited) == {i \in DOMAIN heap : ~heap[i].is_alive} \cup Range(exited)

\* C11: at the end of every tick no agent that has died or exited is a member
\* of the population, and an agent once removed is never a member of the
\* population in any later state: who is gone stays gone, is out of the
\* population whenever no sweep is under way, and once out is never put back.
C11_RemovalIsFinal ==
    [][ /\ Gone(persons, exit_log) \subseteq Gone(persons', exit_log')
        /\ pc' # "sweep" => Range(agents') \cap Gone(persons', exit_log') = {}
        /\ \A i \in Gone(persons, exit_log) :
              i \notin Range(agents) => i \notin Range(agents') ]_vars

\* C11's case: a tick has completed in which one agent exited, another agent
\* had died before, and a child has joined the population since.
C11_Witness ==
    /\ TickDone
    /\ \E i \in Range(atStart.agents) : i \in Range(exit_log) /\ i \notin Range(agents)
    /\ \E j \in DOMAIN persons : ~persons[j].is_alive /\ j \notin Range(agents)
    /\ \E c \in Range(agents) : c \notin Range(StartOfRun.agents)

\* C12: for every agent that is in the population, across every step of the
\* simulation (the Dependent -> Single maturation step that sets age to 10
\* included), turns_survived never decreases and age_years never decreases.
C12_TurnsAndAgeNeverDecrease ==
    [][\A i \in Range(agents) :
          /\ persons'[i].turns_survived >= persons[i].turns_survived
          /\ persons'[i].age_years >= persons[i].age_years]_vars

\* C12's case: a tick has completed in which a Dependent of age 0 matured, its
\* age set to 10 and its count of ticks one higher.
C12_Witness ==
    /\ TickDone
    /\ \E i \in DependentAtStart :
          /\ i \in Range(agents)
          /\ atStart.persons[i].age_years = 0
          /\ persons[i].age_years = 10
          /\ persons[i].turns_survived > atStart.persons[i].turns_survived

\* C12's other case: an acting agent has had a birthday in the tick.
C12_Birthday ==
    \E c \in Range(calls) : c.before.age_years = atStart.persons[c.actor].age_years + 1

\* C13: whenever the decision policy returns a target for an acting agent, the
\* target is a live agent of the population: it is not the acting agent, not
\* Dependent, and not an agent that has already died or exited earlier in the
\* same sweep; so belief sharing and reproduction are never resolved against a
\* dead or exited agent.
C13_TargetIsLive ==
    \A c \in Range(calls) :
        c.target # None =>
            /\ c.target # c.actor
            /\ c.target \in Range(atStart.agents)
            /\ c.other_before.relationship_status # "Dependent"
            /\ c.target \notin c.gone_before

\* The part of C13 that holds: the target is another agent of the list the
\* sweep runs over, and is not Dependent.
C13_TargetIsOtherAdult ==
    \A c \in Range(calls) :
        c.target # None =>
            /\ c.target # c.actor
            /\ c.target \in Range(atStart.agents)
            /\ c.other_before.relationship_status # "Dependent"

\* A reproduction resolved against an agent that died earlier in the sweep
C13_ChildOfTheDead ==
    \E c \in Range(calls) :
        /\ c.action = 10 /\ c.target # None
        /\ ~c.other_before.is_alive
        /\ new_children # <<>>

\* A belief shared with an agent that died earlier in the sweep, whose
\* TiR_score it changed
C13_BeliefOfTheDead ==
    \E c \in Range(calls) :
        /\ c.action = 11 /\ c.target # None
        /\ ~c.other_before.is_alive
        /\ c.other_after.TiR_score # c.other_before.TiR_score

\* An exit is being resolved: the acting agent joins exit_log
ExitStep == pc = "sweep" /\ Len(exit_log') = Len(exit_log) + 1

\* The shock of an exit on Person i, as claimed
Shocked(i) ==
    IF persons[i].TiR_score < 50 * Unit
    THEN /\ persons'[i].self_confidence = 100 * Unit
         /\ persons'[i].TiR_score = Max(0, persons[i].TiR_score - 20 * Unit)
    ELSE /\ persons'[i].self_confidence = persons[i].self_confidence
         /\ persons'[i].TiR_score = persons[i].TiR_score

NotShocked(i) ==
    /\ persons'[i].self_confidence = persons[i].self_confidence
    /\ persons'[i].TiR_score = persons[i].TiR_score

\* The agents of the population that have neither died nor exited
Surviving == Range(agents) \ Gone(persons, exit_log)

\* C14: when an agent exits, every other surviving agent whose TiR_score is
\* below 50 gets self_confidence = 100 and TiR_score = max(0, TiR_score - 20),
\* once for that exit; every other agent with TiR_score >= 50 has its
\* self_confidence and TiR_score left unchanged, and agents that are not
\* surviving (already dead or exited in that sweep) are not shocked.
C14_ShockOnSurvivorsOnly ==
    [][ExitStep =>
          \A i \in DOMAIN persons \ {agents[idx]} :
             IF i \in Surviving THEN Shocked(i) ELSE NotShocked(i)]_vars

\* The part of C14 that holds: the shock on the other agents that survive.
C14_ShockOnSurvivors ==
    [][ExitStep => \A i \in Surviving \ {agents[idx]} : Shocked(i)]_vars

\* An exit has been resolved in a sweep in which an agent with TiR_score below
\* 50 had died before it, and a surviving agent below 50 was there too
C14_ExitAfterDeath ==
    /\ \E c \in Range(calls) :
          /\ c.is_exited
          /\ \E d \in c.gone_before : atStart.persons[d].TiR_score < 50 * Unit
    /\ TickDone

C14_ExitBesideDoubter ==
    /\ TickDone
    /\ \E c \in Range(calls) : c.is_exited
    /\ \E i \in Range(agents) :
          /\ i \in Range(atStart.agents)
          /\ atStart.persons[i].TiR_score < 50 * Unit
          /\ persons[i].TiR_score = atStart.persons[i].TiR_score - 20 * Unit
          /\ persons[i].self_confidence = 100 * Unit

\* 0 <= x, y < grid_size
OnGrid(cell) == cell[1] \in 0 .. GRID_SIZE - 1 /\ cell[2] \in 0 .. GRID_SIZE - 1

\* One cell away on one axis
OneCellApart(p, q) == Abs(p[1] - q[1]) + Abs(p[2] - q[2]) = 1

\* What C15 says of one process_action call
MovesAsClaimed(c) ==
    IF c.action \in 0 .. 3
    THEN IF OnGrid(ProposedCell(c.before.position, c.action))
         THEN /\ c.after.position = ProposedCell(c.before.position, c.action)
              /\ OneCellApart(c.before.position, c.after.position)
              /\ c.delta_U = 1 * Unit
         ELSE /\ c.after.position = c.before.position
              /\ c.delta_U = -5 * Unit
    ELSE c.after.position = c.before.position

\* C15: in every reachable state every agent's position (x, y) satisfies
\* 0 <= x, y < grid_size: a movement action (0..3) whose proposed cell is inside
\* the grid moves the agent by exactly one cell on one axis with reward 1, one
\* whose proposed cell is outside leaves the position unchanged with reward -5,
\* and no non-movement action changes any position (nor does any step move
\* anyone but the agent whose movement action it resolves).
C15_PositionsInGrid ==
    /\ [](\A i \in DOMAIN persons : OnGrid(persons[i].position))
    /\ [](\A c \in Range(calls) :
             MovesAsClaimed(c) /\ c.other_after.position = c.other_before.position)
    /\ [][\A i \in DOMAIN persons :
             persons'[i].position # persons[i].position =>
                /\ pc = "sweep" /\ idx <= Len(agents) /\ agents[idx] = i
                /\ Len(calls') = Len(calls) + 1
                /\ calls'[Len(calls')].action \in 0 .. 3]_vars

\* C15's case: a tick has completed in which one agent moved a cell, another
\* ran into the edge of the grid, a third did something else, and a child was
\* born on its parent's cell.
C15_Witness ==
    /\ TickDone
    /\ \E c \in Range(calls) : c.action \in 0 .. 3 /\ c.delta_U = 1 * Unit
    /\ \E c \in Range(calls) : c.action \in 0 .. 3 /\ c.delta_U = -5 * Unit
    /\ \E c \in Range(calls) :
          /\ c.action = 10
          /\ \E k \in BornThisTick : persons[k].position = c.after.position

\* -1, 0 or 1
Sign(n) == IF n > 0 THEN 1 ELSE IF n < 0 THEN -1 ELSE 0

\* What C16 says of one process_action call with action 11
SharesAsClaimed(c) ==
    LET before == c.before.TiR_score - c.other_before.TiR_score
        after == c.after.TiR_score - c.other_after.TiR_score
        shift == c.other_after.TiR_score - c.other_before.TiR_score
    IN  IF c.target # None /\ c.before.position = c.other_before.position
        THEN /\ Abs(after) <= Abs(before)
             /\ Sign(after) \in {Sign(before), 0}
             /\ Sign(shift) \in {Sign(before), 0}
             /\ 0 <= c.other_after.TiR_score /\ c.other_after.TiR_score <= 100 * Unit
             /\ c.after.TiR_score = c.before.TiR_score
             /\ c.delta_U = IF Abs(shift) > 2 * Unit THEN 5 * Abs(shift) ELSE 0
        ELSE /\ c.other_after.TiR_score = c.other_before.TiR_score
             /\ c.after.TiR_score = c.before.TiR_score
             /\ c.delta_U = 0

\* C16: belief sharing (action 11) changes state only when a target is present
\* and on the same cell as the actor; then the target's TiR_score moves toward
\* the actor's without overshooting it (the distance does not increase, its
\* sign does not flip), stays in [0, 100], the actor's own TiR_score is
\* unchanged, and the reward is 5 x |shift| when |shift| > 2 and 0 otherwise;
\* when the target is absent or not on the same cell no TiR_score changes and
\* the reward is 0.  No TiR_score but the target's changes in either case.
C16_BeliefSharing ==
    /\ [](\A c \in Range(calls) : c.action = 11 => SharesAsClaimed(c))
    /\ [][(Len(calls') = Len(calls) + 1 /\ calls'[Len(calls')].action = 11) =>
             \A i \in DOMAIN persons :
                i # calls'[Len(calls')].target =>
                   persons'[i].TiR_score = persons[i].TiR_score]_vars

\* C16's case: a tick has completed in which one agent persuaded the agent on
\* its cell (a shift above 2, rewarded) and that agent's own sharing moved the
\* first by less (a shift of at most 2, not rewarded).
C16_Witness ==
    /\ TickDone
    /\ \E c \in Range(calls) :
          /\ c.action = 11 /\ c.delta_U > 0
          /\ c.other_after.TiR_score # c.other_before.TiR_score
    /\ \E c \in Range(calls) :
          /\ c.action = 11 /\ c.delta_U = 0
          /\ c.other_after.TiR_score # c.other_before.TiR_score

\* C16's other case: a belief shared with an agent on another cell.
C16_Apart ==
    \E c \in Range(calls) :
        c.action = 11 /\ c.target # None /\ c.before.position # c.other_before.position

\* The size of a value memory
MemorySize(p) == Cardinality(DOMAIN p.action_utility_tracker)

\* C17: an agent's value memory respects its capacity bound: immediately after
\* every age increment the mapping holds at most MEMORY_CAP entries (the
\* entries that stay keep their values, nothing goes when it was within
\* capacity), and in every end-of-tick state its size does not exceed
\* MEMORY_CAP.
C17_MemoryWithinCap ==
    /\ \A c \in Range(calls) :
          c.before.age_years > atStart.persons[c.actor].age_years =>
             /\ MemorySize(c.before) <= c.before.MEMORY_CAP
             /\ \A k \in DOMAIN c.before.action_utility_tracker :
                   /\ k \in DOMAIN atStart.persons[c.actor].action_utility_tracker
                   /\ c.before.action_utility_tracker[k] =
                         atStart.persons[c.actor].action_utility_tracker[k]
             /\ MemorySize(atStart.persons[c.actor]) <= c.before.MEMORY_CAP =>
                   c.before.action_utility_tracker =
                      atStart.persons[c.actor].action_utility_tracker
    /\ TickDone => \A i \in Range(agents) : MemorySize(persons[i]) <= persons[i].MEMORY_CAP

\* The part of C17 about the age increment alone (the first conjunct above).
C17_PrunedAtBirthday ==
    \A c \in Range(calls) :
        c.before.age_years > atStart.persons[c.actor].age_years =>
           /\ MemorySize(c.before) <= c.before.MEMORY_CAP
           /\ \A k \in DOMAIN c.before.action_utility_tracker :
                 /\ k \in DOMAIN atStart.persons[c.actor].action_utility_tracker
                 /\ c.before.action_utility_tracker[k] =
                       atStart.persons[c.actor].action_utility_tracker[k]
           /\ MemorySize(atStart.persons[c.actor]) <= c.before.MEMORY_CAP =>
                 c.before.action_utility_tracker =
                    atStart.persons[c.actor].action_utility_tracker

\* A tick has completed that left an agent of the population with more
\* entries than its capacity
C17_OverCap ==
    TickDone /\ \E i \in Range(agents) : MemorySize(persons[i]) > persons[i].MEMORY_CAP

\* The calls of the tick that resolved action 10 with a target present
IsReproduction(c) == c.action = 10 /\ c.target # None
ReproductionCalls == SelectSeq(calls, IsReproduction)

\* The children of the tick, one for each such call and in their order: each is
\* a new Person, Dependent, of age 0, on its parent's cell, not yet processed,
\* and neither actor nor target of any call; each parent's progeny_count is one
\* higher; until the sweep is over no child is in the population
ChildrenAsClaimed ==
    /\ Len(new_children) = Len(ReproductionCalls)
    /\ Len(persons) = Len(atStart.persons) + Len(new_children)
    /\ \A j \in 1 .. Len(new_children) :
          LET child == persons[new_children[j]]
              birth == ReproductionCalls[j]
          IN  /\ new_children[j] = Len(atStart.persons) + j
              /\ child.relationship_status = "Dependent"
              /\ child.age_years = 0
              /\ child.turns_survived = 0
              /\ child.position = birth.after.position
              /\ child.position = persons[birth.actor].position
              /\ \A c \in Range(calls) :
                    c.actor # new_children[j] /\ c.target # new_children[j]
              /\ IF pc = "sweep"
                 THEN new_children[j] \notin Range(agents)
                 ELSE new_children[j] \in Range(agents)
    /\ \A i \in Range(atStart.agents) :
          persons[i].progeny_count = atStart.persons[i].progeny_count
             + Cardinality({j \in 1 .. Len(calls) :
                              calls[j].actor = i /\ IsReproduction(calls[j])})

\* C18: a child is created exactly when an acting agent resolves action 10
\* with a target present, one child per such action: the child is Dependent
\* with age 0 at the parent's position, the parent's progeny_count increases by
\* 1, and the child joins the population only after the tick's sweep completes,
\* so it is neither selected nor processed during the tick of its birth, and
\* the population is not changed while it is iterated.
C18_ChildCreation ==
    /\ [](atStart # NoStart => ChildrenAsClaimed)
    /\ [][(pc = "sweep" /\ pc' = "sweep") => agents' = agents]_vars
    /\ [][(pc = "sweep" /\ pc' = "idle") =>
             \E kept \in SUBSET (1 .. Len(agents)) :
                agents' = SelectSeq(agents, LAMBDA a : \E n \in kept : agents[n] = a)
                             \o new_children]_vars

\* C18's case: a tick has completed in which two agents on different cells
\* each had a child, and both children are in the population.
C18_Witness ==
    /\ TickDone
    /\ Len(new_children) = 2
    /\ \A j \in 1 .. 2 : new_children[j] \in Range(agents)
    /\ persons[new_children[1]].position # persons[new_children[2]].position

\* s is the beginning of t
IsPrefix(s, t) == Len(s) <= Len(t) /\ \A j \in 1 .. Len(s) : t[j] = s[j]

\* The snapshots recorded so far: one for each tick since the first, in order,
\* the exited field never lower than in the one before
SnapshotsInOrder ==
    \A j \in 1 .. Len(metrics) :
        /\ metrics[j].tick = metrics[1].tick + (j - 1)
        /\ j > 1 => metrics[j].exited >= metrics[j - 1].exited

\* Every step of the run moves run() on, and the run can take a step whenever
\* it is not over
StepsProceed ==
    /\ [][Proceed]_vars
    /\ [](pc # "done" => ENABLED Next)
    /\ [](pc = "done" => ~ENABLED Next)

\* C19: a run configured with turns = T always terminates after exactly T
\* ticks, whatever happens to the population: the global clock advances by
\* exactly 1 per tick (from 1 to T in a run that starts at 0), exactly one
\* snapshot is recorded per tick, its population field the population size and
\* its exited field the cumulative number of exits, which never decreases.
C19_TerminatesAfterTTicks ==
    /\ <>(pc = "done")
    /\ [](pc = "done" =>
             /\ global_clock = turns
             /\ metrics # <<>> => metrics[Len(metrics)].tick = turns
             /\ metrics = <<>> => atStart = NoStart)
    /\ [](SnapshotsInOrder /\ global_clock <= turns)
    /\ [][ /\ global_clock' = global_clock + (IF pc = "idle" /\ pc' = "sweep" THEN 1 ELSE 0)
           /\ turns' = turns
           /\ IsPrefix(exit_log, exit_log')
           /\ IF pc = "sweep" /\ pc' = "idle"
              THEN /\ Len(metrics') = Len(metrics) + 1
                   /\ IsPrefix(metrics, metrics')
                   /\ metrics'[Len(metrics')].tick = global_clock
                   /\ metrics'[Len(metrics')].population = Len(agents')
                   /\ metrics'[Len(metrics')].exited = Len(exit_log')
              ELSE metrics' = metrics ]_vars

\* C19's case: a run from the constructor's state has ended after its T ticks
\* with T snapshots, ticks 1 to T.
C19_Witness ==
    /\ pc = "done"
    /\ turns > 0
    /\ Len(metrics) = turns
    /\ \A j \in 1 .. Len(metrics) : metrics[j].tick = j

\* C19's other cases: a run has ended with its population extinct after an
\* exit, ticks having gone by without anyone; a run has ended with a larger
\* population than it began with.
C19_Extinction ==
    /\ pc = "done"
    /\ agents = <<>>
    /\ Len(metrics) >= 2
    /\ metrics[Len(metrics)].population = 0
    /\ metrics[Len(metrics)].exited = 1
    /\ metrics[Len(metrics) - 1].population = 0

C19_Growth ==
    /\ pc = "done"
    /\ metrics # <<>>
    /\ metrics[Len(metrics)].population > 3

\* Person p after grieve_loss has been applied k times for someone who was not
\* its partner: mood -15 and health -7.5 each time, clamped at 0
GrievedTimes(p, k) ==
    [p EXCEPT !.mood = Max(0, p.mood - k * 15 * Unit),
              !.health = Max(0, p.health - k * ((15 * Unit) \div 2))]

\* C20: grief is applied for every removal, not only deaths.  When k agents are
\* removed in one tick (by death or by successful exit), every agent that is in
\* the population at the start of the tick and is not itself removed has
\* grieve_loss applied exactly k times (mood -15 and health -7.5 each,
\* clamped), while the agents removed in that tick and the children born in it
\* receive no grief.
C20_GriefForEveryRemoval ==
    [][(pc = "sweep" /\ pc' = "idle") =>
          /\ Range(agents) = Range(atStart.agents)
          /\ Range(agents_to_remove) =
                {i \in Range(agents) : i \in Gone(persons, exit_log)}
          /\ \A i \in DOMAIN persons :
                persons'[i] =
                   IF i \in Range(agents) \ Range(agents_to_remove)
                   THEN GrievedTimes(persons[i], Len(agents_to_remove))
                   ELSE persons[i]]_vars

\* C20's case: a tick has completed in which one agent died and another
\* exited, and an agent of the starting population remains, having grieved
\* twice.
C20_Witness ==
    /\ TickDone
    /\ Len(agents_to_remove) = 2
    /\ \E d \in Range(agents_to_remove) : ~persons[d].is_alive
    /\ \E e \in Range(agents_to_remove) : e \in Range(exit_log)
    /\ \E s \in Range(agents) :
          /\ s \in Range(atStart.agents)
          /\ persons[s].mood = atStart.persons[s].mood - 30 * Unit
          /\ persons[s].health = atStart.persons[s].health - 15 * Unit

\* C20's other case: a tick has completed with an exit and no death, in which
\* a child was born: the child has not grieved, the others have.
C20_ExitAndBirth ==
    /\ TickDone
    /\ agents_to_remove # <<>>
    /\ \A r \in Range(agents_to_remove) : persons[r].is_alive
    /\ \E c \in BornThisTick : persons[c].mood = 80 * Unit
    /\ \E s \in Range(agents) :
          /\ s \in Range(atStart.agents)
          /\ persons[s].mood < atStart.persons[s].mood

\* C20's clamped case: a tick has completed in which a survivor whose mood was
\* below one grief penalty was left with mood 0.
C20_Clamped ==
    /\ TickDone
    /\ agents_to_remove # <<>>
    /\ \E s \in Range(agents) :
          /\ s \in Range(atStart.agents)
          /\ atStart.persons[s].mood > 0
          /\ atStart.persons[s].mood < 15 * Unit
          /\ persons[s].mood = 0

\* C21: in every reachable state of a run every agent's relationship_status is
\* "Dependent" or "Single" and its partner_name is absent, so the Partnered and
\* Grieving states and the partner branch of grieve_loss (penalty 40, goal
\* replaced) are never reached: no agent's goal ever changes and the end of a
\* tick takes at most 15 of mood per removal; the only status transition that
\* occurs is Dependent -> Single.
C21_OnlyDependentOrSingle ==
    /\ [](\A i \in DOMAIN persons :
             /\ persons[i].relationship_status \in {"Dependent", "Single"}
             /\ persons[i].partner_name = NoName)
    /\ [][\A i \in DOMAIN persons :
             /\ persons'[i].relationship_status # persons[i].relationship_status =>
                   /\ persons[i].relationship_status = "Dependent"
                   /\ persons'[i].relationship_status = "Single"
             /\ persons'[i].personal_goal = persons[i].personal_goal
             /\ (pc = "sweep" /\ pc' = "idle") =>
                   persons'[i].mood >= persons[i].mood - Len(agents_to_remove) * 15 * Unit]_vars

\* C21's case: a tick has completed in which a Dependent of the starting
\* population became Single and a removal was grieved by a survivor, who is
\* still Single with its goal and lost 15 of mood.
C21_Witness ==
    /\ TickDone
    /\ agents_to_remove # <<>>
    /\ \E d \in Range(atStart.agents) :
          /\ atStart.persons[d].relationship_status = "Dependent"
          /\ persons[d].relationship_status = "Single"
    /\ \E s \in Range(agents) :
          /\ atStart.persons[s].relationship_status = "Single"
          /\ persons[s].relationship_status = "Single"
          /\ persons[s].personal_goal = atStart.persons[s].personal_goal
          /\ persons[s].mood = atStart.persons[s].mood - 15 * Unit
=============================================================================
